---------------------------- MODULE Spec2Model ----------------------------
(***************************************************************************)
(* Model of the PF_opt portfolio optimizer: the market-data layer          *)
(* (backend/mkt_data.py), the optimizer wrapper (backend/optimizer.py),    *)
(* the first-generation backend (backend.py) and the Streamlit Optimize    *)
(* handler (app/app.py).                                                   *)
(*                                                                         *)
(* Dates are day ordinals (day 0 is a Thursday, like 1970-01-01).  Floats  *)
(* are exact rationals [num, den]; NaN is 0/0 and +inf is 1/0.  A pandas   *)
(* Series is a record [name, data] whose data is a function from dates to  *)
(* values; the market-data provider (yfinance) is an oracle from symbols   *)
(* to the frames it answers with.                                          *)
(***************************************************************************)
EXTENDS Integers, Sequences, FiniteSets, TLC

VARIABLES
    call,            \* the entry point exercised and its arguments
    ret,             \* what the last call or handler run did and returned
    cache,           \* st.cache_data of cached_get_data: arguments -> price matrix
    optimized_data,  \* st.session_state.optimized_data
    runs             \* Optimize clicks so far in the session

vars == <<call, ret, cache, optimized_data, runs>>

(***************************************************************************)
(* Bounds of the model                                                     *)
(***************************************************************************)
\* last day of the modelled calendar: days 0..MaxDay
MaxDay == 5
\* longest ticker list passed to get_data
MaxTickers == 2
\* most assets in a price matrix handed to the optimizer
MaxAssets == 3
\* Optimize clicks in one session
MaxRuns == 2
\* the civil years backend.get_data is called with
\* longest price series passed to calculate_series_metrics
MaxObs == 3
FirstYear == 2019
LastYear == 2025

(***************************************************************************)
(* Floats                                                                  *)
(***************************************************************************)
Rat(n, d) == [num |-> n, den |-> d]
NaN == Rat(0, 0)
Inf == Rat(1, 0)
IsNaN(x) == x.num = 0 /\ x.den = 0
IsFinite(x) == x.den > 0
RatEq(a, b) == IsFinite(a) /\ IsFinite(b) /\ a.num * b.den = b.num * a.den
IsZero(x) == IsFinite(x) /\ x.num = 0
IsPositive(x) == IsFinite(x) /\ x.num > 0

\* a * b in floating point: NaN propagates
Mul(a, b) ==
    IF IsNaN(a) \/ IsNaN(b) THEN NaN
    ELSE IF ~IsFinite(a) \/ ~IsFinite(b)
         THEN (IF IsZero(a) \/ IsZero(b) THEN NaN ELSE Inf)
         ELSE Rat(a.num * b.num, a.den * b.den)

\* 1.0 / x in numpy: 1/NaN is NaN, 1/0 is inf (no exception), 1/inf is 0
Reciprocal(x) ==
    IF IsNaN(x) THEN NaN
    ELSE IF ~IsFinite(x) THEN Rat(0, 1)
    ELSE IF x.num = 0 THEN Inf
    ELSE Rat(x.den, x.num)

(***************************************************************************)
(* Calendar                                                                *)
(***************************************************************************)
SetMin(S) == CHOOSE m \in S : \A e \in S : m <= e
SetMax(S) == CHOOSE m \in S : \A e \in S : m >= e

\* 0 = Monday .. 6 = Sunday
Weekday(d) == (d + 3) % 7
IsBusinessDay(d) == Weekday(d) < 5

\* pd.date_range(start=a, end=b, freq="B"): both ends inclusive
BusinessDays(a, b) == {d \in a..b : IsBusinessDay(d)}

(***************************************************************************)
(* pandas Series                                                           *)
(***************************************************************************)
Series(name, data) == [name |-> name, data |-> data]
\* pd.Series(dtype=float)
EmptySeries == Series("None", <<>>)
IsEmpty(s) == DOMAIN s.data = {}

\* Series.dropna()
Dropna(s) ==
    Series(s.name, [d \in {e \in DOMAIN s.data : ~IsNaN(s.data[e])} |-> s.data[d]])

\* Series.reindex(idx)
Reindex(s, idx) ==
    Series(s.name, [d \in idx |-> IF d \in DOMAIN s.data THEN s.data[d] ELSE NaN])

\* Series.asfreq("B"): an empty series stays empty, otherwise reindex onto
\* the business days between the first and the last date of the series
Asfreq(s) ==
    IF IsEmpty(s) THEN s
    ELSE Reindex(s, BusinessDays(SetMin(DOMAIN s.data), SetMax(DOMAIN s.data)))

\* Series.ffill(): a NaN takes the last valid value before it
Ffill(s) ==
    Series(s.name,
        [d \in DOMAIN s.data |->
            LET prev == {e \in DOMAIN s.data : e <= d /\ ~IsNaN(s.data[e])}
            IN  IF prev = {} THEN NaN ELSE s.data[SetMax(prev)]])

\* Series.bfill(): a NaN takes the next valid value after it
Bfill(s) ==
    Series(s.name,
        [d \in DOMAIN s.data |->
            LET next == {e \in DOMAIN s.data : e >= d /\ ~IsNaN(s.data[e])}
            IN  IF next = {} THEN NaN ELSE s.data[SetMin(next)]])

\* Series.replace(0, np.nan)
ReplaceZeroWithNaN(s) ==
    Series(s.name, [d \in DOMAIN s.data |-> IF IsZero(s.data[d]) THEN NaN ELSE s.data[d]])

(***************************************************************************)
(* The market-data provider                                                *)
(***************************************************************************)
\* a frame answered by yf.download: its price column and its rows
Frame(col, data) == [col |-> col, data |-> data]
EmptyFrame == Frame("Close", <<>>)

\* yf.download(ticker, start, end): rows on trading days of [start, end)
\* the provider has history on the modelled calendar only
TradingDays(start, end) ==
    {d \in 0..MaxDay : start <= d /\ d < end /\ IsBusinessDay(d)}

\* every frame the provider can answer with, its prices drawn from values
Frames(start, end, cols, values) ==
    {Frame(c, f) : c \in cols,
                   f \in UNION {[D -> values] : D \in SUBSET TradingDays(start, end)}}


\* _download_series(ticker, start, end), given the frame yf.download answers
_download_series(ticker, frame) ==
    IF DOMAIN frame.data = {} THEN EmptySeries
    ELSE IF frame.col \notin {"Adj Close", "Close"} THEN EmptySeries
    ELSE Bfill(Ffill(Asfreq(Dropna(Series(ticker, frame.data)))))

(***************************************************************************)
(* Currency codes and str.upper()                                          *)
(***************************************************************************)
UpperTable ==
    ("usd" :> "USD") @@ ("gbp" :> "GBP") @@ ("Gbp" :> "GBP") @@ ("eur" :> "EUR")
    @@ ("spy" :> "SPY") @@ ("^ftse" :> "^FTSE") @@ ("bbb" :> "BBB")

\* str.upper(): an upper-case string is its own image
Upper(s) == IF s \in DOMAIN UpperTable THEN UpperTable[s] ELSE s

One == Rat(1, 1)

(***************************************************************************)
(* get_fx                                                                  *)
(***************************************************************************)
\* the inversion without the zero guard: 1.0 / s_rev
Invert_unguarded(s_rev, reverse) ==
    Series(reverse \o "_inverted", [d \in DOMAIN s_rev.data |-> Reciprocal(s_rev.data[d])])

\* 1.0 / s_rev.replace(0, np.nan), named <reverse>_inverted
Invert(s_rev, reverse) ==
    LET r == ReplaceZeroWithNaN(s_rev)
    IN  Series(reverse \o "_inverted", [d \in DOMAIN r.data |-> Reciprocal(r.data[d])])

\* a series of 1.0 over the calendar days of the range (freq="D")
UnitSeries_calendar_days(name, start_date, end_date) ==
    Series(name, [d \in start_date..end_date |-> One])

\* pd.Series(1.0, index=pd.date_range(start_date, end_date, freq="B"))
UnitSeries(name, start_date, end_date) ==
    Series(name, [d \in BusinessDays(start_date, end_date) |-> One])

\* the result of get_fx and the symbols it asked the provider for, in order
FxResult(series, pair, fetches) == [series |-> series, pair |-> pair, fetches |-> fetches]

\* get_fx(from_ccy, to_ccy, start_date, end_date); yf maps a symbol to the
\* frame the provider answers with for [start_date, end_date)
get_fx(from_ccy, to_ccy, start_date, end_date, yf) ==
    LET from == Upper(from_ccy)
        to == Upper(to_ccy)
        direct == from \o to \o "=X"
        reverse == to \o from \o "=X"
        s == _download_series(direct, yf[direct])
        s_rev == _download_series(reverse, yf[reverse])
    IN  IF from = to
        THEN FxResult(UnitSeries(from \o to, start_date, end_date), "None", <<>>)
        ELSE IF ~IsEmpty(s)
        THEN FxResult(Series(direct, s.data), direct, <<direct>>)
        ELSE IF ~IsEmpty(s_rev)
        THEN FxResult(Invert(s_rev, reverse), reverse \o "_inverted", <<direct, reverse>>)
        ELSE FxResult(EmptySeries, "None", <<direct, reverse>>)


(***************************************************************************)
(* pandas DataFrame: column names, a sorted date index, one data function  *)
(* per column position                                                     *)
(***************************************************************************)
\* the dates of S in increasing order
SortedIndex(S) ==
    [i \in 1..Cardinality(S) |-> CHOOSE d \in S : Cardinality({e \in S : e < d}) = i - 1]

DataFrame(columns, dates, cols) ==
    [columns |-> columns, index |-> SortedIndex(dates), cols |-> cols]
\* pd.DataFrame()
EmptyDataFrame == DataFrame(<<>>, {}, <<>>)
DfEmpty(df) == Len(df.columns) = 0 \/ Len(df.index) = 0

(***************************************************************************)
(* get_data                                                                *)
(***************************************************************************)
NotEmpty(s) == ~IsEmpty(s)

\* a loop that gives up on every series when one of them is empty
NonEmptySeries_all_or_nothing(fetched) ==
    IF \E i \in 1..Len(fetched) : IsEmpty(fetched[i]) THEN <<>> ELSE fetched

\* the loop of get_data: the fetched series that are not empty, in order
NonEmptySeries(fetched) == SelectSeq(fetched, NotEmpty)

\* a fill that only carries values forward
Fill_forward_only(s) == Ffill(s)

\* df.bfill().ffill()
Fill(s) == Ffill(Bfill(s))

\* get_data(tickers, start_date, end_date); yf maps each ticker to the frame
\* the provider answers with for [start_date, end_date)
get_data(tickers, yf) ==
    LET fetched == [i \in 1..Len(tickers) |-> _download_series(tickers[i], yf[tickers[i]])]
        series_list == NonEmptySeries(fetched)
        \* pd.concat(series_list, axis=1).sort_index(): outer join on the dates
        union == UNION {DOMAIN series_list[i].data : i \in 1..Len(series_list)}
        \* df.asfreq("B")
        calendar == BusinessDays(SetMin(union), SetMax(union))
        column(i) == Fill(Reindex(Reindex(series_list[i], union), calendar)).data
    IN  IF Len(tickers) = 0 THEN EmptyDataFrame
        ELSE IF Len(series_list) = 0 THEN EmptyDataFrame
        ELSE DataFrame([i \in 1..Len(series_list) |-> series_list[i].name],
                       calendar,
                       [i \in 1..Len(series_list) |-> column(i)])

(***************************************************************************)
(* get_bmk                                                                 *)
(***************************************************************************)
\* _get_ticker_currency(ticker): info is what yf.Ticker(ticker).info answers,
\* [raised, currency]; a failure or a missing currency gives None
_get_ticker_currency(info) ==
    IF info.raised THEN "None"
    ELSE IF info.currency \in {"None", ""} THEN "None"
    ELSE Upper(info.currency)

\* ticker.upper().startswith("^FTSE") or ticker.upper().startswith("^FTMC")
IsFtseTicker(ticker) == Upper(ticker) \in {"^FTSE", "^FTMC"}

Meta(bench_ccy, fx_pair_used) == [bench_ccy |-> bench_ccy, fx_pair_used |-> fx_pair_used]
BmkResult(df, meta, fetches) == [df |-> df, meta |-> meta, fetches |-> fetches]

\* ApplyFx filling backward first, then forward
ApplyFx_bfill_first(series, fx_series) ==
    LET fx == Ffill(Bfill(Reindex(fx_series, DOMAIN series.data)))
    IN  [d \in DOMAIN series.data |-> Mul(series.data[d], fx.data[d])]

\* df["benchmark_adj_close"] * fx_series.values, fx_series reindexed onto
\* the benchmark's index and forward- then backward-filled
ApplyFx(series, fx_series) ==
    LET fx == Bfill(Ffill(Reindex(fx_series, DOMAIN series.data)))
    IN  [d \in DOMAIN series.data |-> Mul(series.data[d], fx.data[d])]

\* the conversion applied also when no FX series was found
Converted_always_applies(series, fx_series) == ApplyFx(series, fx_series)

\* the converted column: the original when the FX series is empty
Converted(series, fx_series) ==
    IF IsEmpty(fx_series) THEN series.data ELSE ApplyFx(series, fx_series)

\* get_bmk(ticker, start_date, end_date, reporting_currency)
get_bmk(ticker, start_date, end_date, reporting_currency, yf, info) ==
    LET series == _download_series(ticker, yf[ticker])
        detected == _get_ticker_currency(info)
        bench_ccy == IF detected = "None"
                     THEN (IF IsFtseTicker(ticker) THEN "GBP" ELSE "USD")
                     ELSE Upper(detected)
        fx == get_fx(bench_ccy, reporting_currency, start_date, end_date, yf)
        frame(converted) ==
            DataFrame(<<"benchmark_adj_close", "benchmark_adj_close_converted">>,
                      DOMAIN series.data, <<series.data, converted>>)
    IN  IF IsEmpty(series)
        THEN BmkResult(EmptyDataFrame, Meta("None", "None"), <<ticker>>)
        ELSE IF reporting_currency \in {"None", ""} \/ Upper(reporting_currency) = bench_ccy
        THEN BmkResult(frame(series.data), Meta(bench_ccy, "None"), <<ticker>>)
        ELSE BmkResult(frame(Converted(series, fx.series)), Meta(bench_ccy, fx.pair),
                       <<ticker>> \o fx.fetches)

(***************************************************************************)
(* optimize_portfolio.  Weights are integers in units of 1e-6.  The        *)
(* solver (pypfopt's EfficientFrontier) is an oracle: it raises, or        *)
(* answers with long-only weights that sum to one.                         *)
(***************************************************************************)
\* 1.0 in weight units
WeightOne == 1000000
\* clean_weights(cutoff=1e-4, rounding=5), the defaults the call uses
Cutoff == 100
RoundingUnit == 10

Abs(x) == IF x < 0 THEN 0 - x ELSE x

RECURSIVE SeqSum(_)
SeqSum(q) == IF Len(q) = 0 THEN 0 ELSE Head(q) + SeqSum(Tail(q))

\* np.round(w, 5): to the nearest multiple of RoundingUnit, ties to even
Round5(w) ==
    LET q == w \div RoundingUnit
        r == w % RoundingUnit
    IN  IF 2 * r < RoundingUnit THEN q * RoundingUnit
        ELSE IF 2 * r > RoundingUnit THEN (q + 1) * RoundingUnit
        ELSE IF q % 2 = 0 THEN q * RoundingUnit ELSE (q + 1) * RoundingUnit

\* clean_weights without the cutoff: rounding only
clean_weights_rounds_only(weights) ==
    [i \in 1..Len(weights) |-> Round5(weights[i])]

\* ef.clean_weights(): weights below the cutoff become 0, the others are
\* rounded; nothing is rescaled
clean_weights(weights) ==
    [i \in 1..Len(weights) |-> Round5(IF Abs(weights[i]) < Cutoff THEN 0 ELSE weights[i])]

Raised(error) == [raised |-> error]
IsRaised(r) == r.raised # "None"

Solved(weights, perf) == [raised |-> "None", weights |-> weights, perf |-> perf]

\* optimize_portfolio(data); ef is what the solver answers for data
optimize_portfolio(data, ef) ==
    IF IsRaised(ef) THEN Raised(ef.raised)
    ELSE [raised |-> "None",
          weights |-> [tickers |-> data.columns, values |-> clean_weights(ef.weights)],
          perf |-> ef.perf]

(***************************************************************************)
(* calculate_series_metrics.  price_series is the sequence of the series'  *)
(* values in index order.  The numeric library calls are oracles: mu is    *)
(* what mean_historical_return answers, std what Series.std() answers.     *)
(***************************************************************************)
\* (b - a) / a, one element of Series.pct_change()
PctChange(a, b) ==
    IF ~IsFinite(a) \/ ~IsFinite(b) THEN NaN
    ELSE IF a.num = 0 THEN (IF b.num = a.num THEN NaN ELSE Inf)
    ELSE Rat(b.num * a.den - a.num * b.den, a.num * b.den)

NotNaN(x) == ~IsNaN(x)

\* price_series.pct_change().dropna(): the first element of pct_change is
\* NaN and is dropped
Returns(price_series) ==
    SelectSeq([i \in 1..Len(price_series) |->
                    IF i = 1 THEN NaN ELSE PctChange(price_series[i - 1], price_series[i])],
              NotNaN)

\* np.sqrt(252), to the precision of the model
SqrtFrequency == Rat(127, 8)

\* mu / sigma in floating point
Div(a, b) == Mul(a, Reciprocal(b))

\* the ratio without the test of sigma
Sharpe_unguarded(mu, sigma) == Div(mu, sigma)

\* mu / sigma if sigma != 0 else 0; NaN != 0 is true
Sharpe(mu, sigma) == IF ~IsZero(sigma) THEN Div(mu, sigma) ELSE Rat(0, 1)

\* calculate_series_metrics(price_series), given the library's answers
calculate_series_metrics(price_series, mu, std) ==
    LET sigma == Mul(std, SqrtFrequency)
    IN  [mu |-> mu, sigma |-> sigma, sharpe |-> Sharpe(mu, sigma)]

(***************************************************************************)
(* calculate_end_pf_weights.  A weights dict and a weight Series are       *)
(* [tickers, values]: the keys in order and the value of each.             *)
(***************************************************************************)
\* a + b in floating point
Add(a, b) ==
    IF IsNaN(a) \/ IsNaN(b) THEN NaN
    ELSE IF ~IsFinite(a) \/ ~IsFinite(b) THEN Inf
    ELSE Rat(a.num * b.den + b.num * a.den, a.den * b.den)

\* Series.sum()
RECURSIVE RatSum(_)
RatSum(q) == IF Len(q) = 0 THEN Rat(0, 1) ELSE Add(Head(q), RatSum(Tail(q)))

Weights(tickers, values) == [tickers |-> tickers, values |-> values]
\* pd.Series(dtype=float)
EmptyWeights == Weights(<<>>, <<>>)
\* weights[t]
WeightOf(weights, t) ==
    weights.values[CHOOSE i \in 1..Len(weights.tickers) : weights.tickers[i] = t]
\* prices_df[t]
ColumnOf(df, t) == df.cols[CHOOSE i \in 1..Len(df.columns) : df.columns[i] = t]

\* the ending values taken as they are
Normalise_skipped(ending_values) == ending_values

\* ending_values / ending_values.sum()
Normalise(ending_values) ==
    LET total == RatSum(ending_values)
    IN  [i \in 1..Len(ending_values) |-> Div(ending_values[i], total)]

\* calculate_end_pf_weights(prices_df, weights)
calculate_end_pf_weights(prices_df, weights) ==
    LET InPrices(t) == \E k \in 1..Len(prices_df.columns) : prices_df.columns[k] = t
        valid_tickers == SelectSeq(weights.tickers, InPrices)
        w_start == Weights(valid_tickers,
                           [i \in 1..Len(valid_tickers) |-> WeightOf(weights, valid_tickers[i])])
        first == prices_df.index[1]
        last == prices_df.index[Len(prices_df.index)]
        \* prices_df[valid_tickers].iloc[-1] / prices_df[valid_tickers].iloc[0]
        price_ratios == [i \in 1..Len(valid_tickers) |->
                            Div(ColumnOf(prices_df, valid_tickers[i])[last],
                                ColumnOf(prices_df, valid_tickers[i])[first])]
        ending_values == [i \in 1..Len(valid_tickers) |->
                            Mul(w_start.values[i], price_ratios[i])]
    IN  IF Len(valid_tickers) = 0
        THEN [w_start |-> EmptyWeights, w_end |-> EmptyWeights]
        ELSE [w_start |-> w_start, w_end |-> Weights(valid_tickers, Normalise(ending_values))]

(***************************************************************************)
(* get_sp500_constituents.  env is what the outside world answers: how     *)
(* many GETs of each URL fail before one succeeds, whether the page and    *)
(* the CSV parse, whether the workbook can be written and read.  The       *)
(* result carries the log of the accesses made, in order.                  *)
(***************************************************************************)
\* max_retries of _get_html_with_retries
max_retries == 3

\* _get_html_with_retries(url): fails GETs fail before one succeeds; one
\* GET per attempt, and HTTPError after max_retries failed attempts
_get_html_with_retries(url, fails) ==
    LET attempts == IF fails < max_retries THEN fails + 1 ELSE max_retries
    IN  [ok |-> fails < max_retries, log |-> [i \in 1..attempts |-> "GET " \o url]]

\* write_equity_lists_excel inside try/except Exception: a failure is
\* logged and the workbook is left as it was
WriteCache(file, content, write_ok) == IF write_ok THEN content ELSE file

Constituents(raised, source, log, file) ==
    [raised |-> raised, source |-> source, log |-> log, file |-> file]

\* step 1 attempted whatever fetch_live says
TryWikipedia_always(fetch_live, env) ==
    LET html == _get_html_with_retries("wikipedia", env.wiki_fails)
    IN  [ok |-> html.ok /\ env.wiki_parse = "ok", log |-> html.log]

\* step 1: the Wikipedia table, only when fetch_live; it fails when the
\* page cannot be fetched, cannot be parsed or holds no table
TryWikipedia(fetch_live, env) ==
    LET html == _get_html_with_retries("wikipedia", env.wiki_fails)
    IN  IF ~fetch_live THEN [ok |-> FALSE, log |-> <<>>]
        ELSE [ok |-> html.ok /\ env.wiki_parse = "ok", log |-> html.log]

\* step 2: the GitHub CSV mirror
TryGithub(env) ==
    LET csv_text == _get_html_with_retries("github", env.github_fails)
    IN  [ok |-> csv_text.ok /\ env.github_parse, log |-> csv_text.log]

\* get_sp500_constituents(fetch_live, use_cache_if_exists); file is what
\* EXCEL_PATH holds: "absent", or the source of its sheet
get_sp500_constituents(fetch_live, use_cache_if_exists, file, env) ==
    LET wiki == TryWikipedia(fetch_live, env)
        github == TryGithub(env)
    IN  IF wiki.ok
        THEN Constituents("None", "wikipedia", wiki.log \o <<"write">>,
                          WriteCache(file, "wikipedia", env.write_ok))
        ELSE IF github.ok
        THEN Constituents("None", "github", wiki.log \o github.log \o <<"write">>,
                          WriteCache(file, "github", env.write_ok))
        ELSE IF use_cache_if_exists /\ file # "absent"
        THEN (IF env.excel_read
              THEN Constituents("None", "excel", wiki.log \o github.log \o <<"read">>, file)
              ELSE Constituents("FileNotFoundError", "None",
                                wiki.log \o github.log \o <<"read">>, file))
        ELSE Constituents("FileNotFoundError", "None", wiki.log \o github.log, file)

(***************************************************************************)
(* backend.get_data of the first-generation backend (backend.py)           *)
(***************************************************************************)
IsLeapYear(y) == y % 4 = 0 /\ (y % 100 # 0 \/ y % 400 = 0)
DaysInMonth(y, m) ==
    IF m = 2 THEN (IF IsLeapYear(y) THEN 29 ELSE 28)
    ELSE IF m \in {4, 6, 9, 11} THEN 30 ELSE 31

RECURSIVE DaysBeforeMonth(_, _)
DaysBeforeMonth(y, m) == IF m = 1 THEN 0 ELSE DaysBeforeMonth(y, m - 1) + DaysInMonth(y, m - 1)

\* datetime.date.toordinal()
ToOrdinal(date) ==
    LET y == date.year - 1
    IN  y * 365 + (y \div 4) - (y \div 100) + (y \div 400)
        + DaysBeforeMonth(date.year, date.month) + date.day

\* max_days = 365 * 5
max_days == 365 * 5

\* backend.get_data(tickers, start_date, end_date): the range check, then
\* the download; closes is the provider's answer
backend_get_data(tickers, start_date, end_date, closes) ==
    LET date_diff == ToOrdinal(end_date) - ToOrdinal(start_date)
    IN  IF date_diff > max_days
        THEN [raised |-> "ValueError", fetches |-> <<>>]
        ELSE [raised |-> "None", fetches |-> <<tickers>>, data |-> closes]

(***************************************************************************)
(* The calls of the model and their inputs                                 *)
(***************************************************************************)
Days == 0..MaxDay
CurrencyCodes == {"USD", "GBP", "gbp"}
FxRates == {Rat(0, 1), Rat(5, 4), Rat(4, 5)}
Prices == {Rat(100, 1), Rat(110, 1)}
TickerNames == {"AAA", "BBB"}
AssetNames == <<"AAA", "BBB", "CCC", "DDD", "EEE">>

\* sequences over S of length at most n
SeqsUpTo(S, n) == UNION {[1..k -> S] : k \in 0..n}
Range(q) == {q[i] : i \in 1..Len(q)}

\* ---- get_fx
FxFrames(start, end) == Frames(start, end, {"Close"}, FxRates)

\* the provider's answers for the two pairs: the reverse pair's answer
\* ranges over all frames when the direct pair is empty, and over
\* unasked otherwise
FxOracles(direct, reverse, start, end, unasked) ==
    {(direct :> d) @@ (reverse :> r) :
        d \in FxFrames(start, end) \ {EmptyFrame}, r \in unasked}
    \cup {(direct :> EmptyFrame) @@ (reverse :> r) : r \in FxFrames(start, end)}

\* closes on every trading day of [start, end)
FullFrame(start, end, first) ==
    Frame("Close", [d \in TradingDays(start, end) |-> Rat(first + d, 1)])

\* the provider's answers to one call of get_fx
FxCallOracles(c) ==
    LET from == Upper(c.from_ccy)
        to == Upper(c.to_ccy)
    IN  IF from = to THEN {<<>>}
        ELSE FxOracles(from \o to \o "=X", to \o from \o "=X", c.start_date, c.end_date,
                       {EmptyFrame, FullFrame(c.start_date, c.end_date, 1)})

FxCalls ==
    {[op |-> "get_fx", from_ccy |-> f, to_ccy |-> t, start_date |-> s, end_date |-> e] :
        f \in CurrencyCodes, t \in CurrencyCodes, s \in Days, e \in Days}

\* ---- get_bmk
BenchTickers == {"SPY", "^ftse"}
ReportingCurrencies == {"None", "USD", "gbp"}
Info(raised, currency) == [raised |-> raised, currency |-> currency]
InfoAnswers == {Info(TRUE, "None"), Info(FALSE, "None"), Info(FALSE, "usd"), Info(FALSE, "GBP")}
BenchFrames(start, end) == Frames(start, end, {"Close"}, {Rat(100, 1)})

BmkCalls ==
    {[op |-> "get_bmk", ticker |-> t, reporting_currency |-> rc,
      start_date |-> s, end_date |-> e] :
        t \in BenchTickers, rc \in ReportingCurrencies, s \in Days, e \in Days}

\* the provider's answers to one call of get_bmk: the benchmark's frame
\* and the two pairs'
BmkOracles(c, bench_ccy) ==
    LET direct == bench_ccy \o Upper(c.reporting_currency) \o "=X"
        reverse == Upper(c.reporting_currency) \o bench_ccy \o "=X"
    IN  {(c.ticker :> b) @@ fx :
            b \in BenchFrames(c.start_date, c.end_date),
            fx \in FxOracles(direct, reverse, c.start_date, c.end_date, {EmptyFrame})}

\* ---- get_data
\* frames for an asset: closes on any trading days, and three odd frames
AssetFrames(start, end) ==
    LET days == TradingDays(start, end)
        full == [d \in days |-> Rat(100, 1)]
    IN  Frames(start, end, {"Close"}, Prices)
        \cup {Frame("Adj Close", full), Frame("Volume", full)}
        \cup {Frame("Close", [d \in days |-> IF d = SetMin(days) THEN NaN ELSE Rat(100, 1)])}

DataCalls ==
    {[op |-> "get_data", tickers |-> t, start_date |-> s, end_date |-> e] :
        t \in SeqsUpTo(TickerNames, MaxTickers), s \in Days, e \in Days}

\* ---- optimize_portfolio
\* price matrices of n assets over the business days 0..last
PriceMatrix(n, last) ==
    DataFrame(SubSeq(AssetNames, 1, n), BusinessDays(0, last),
              [i \in 1..n |-> [d \in BusinessDays(0, last) |-> Rat(100 + i * d, 1)]])

OptCalls == {[op |-> "optimize_portfolio", data |-> PriceMatrix(n, last)] :
                n \in 0..MaxAssets, last \in 0..MaxDay}

\* raw weights the solver can answer with for n assets: non-negative,
\* summing to one
SmallWeights == {0, 4, 50, 100, 250000, 333333}
RawWeights(n) ==
    IF n = 0 THEN {}
    ELSE {Append(h, WeightOne - SeqSum(h)) :
            h \in {g \in [1..(n - 1) -> SmallWeights] : SeqSum(g) <= WeightOne}}

\* what the solver can answer for data: without assets or with fewer than
\* two rows it raises; otherwise it may also fail to find a solution
EfAnswers(data) ==
    IF Len(data.columns) = 0 \/ Len(data.index) < 2
    THEN {Raised("ValueError")}
    ELSE {Raised("ValueError"), Raised("OptimizationError")}
         \cup {Solved(w, [expected |-> w]) : w \in RawWeights(Len(data.columns))}

\* ---- calculate_series_metrics
SeriesPrices == {Rat(100, 1), Rat(110, 1), Rat(121, 1)}
MetricsCalls ==
    {[op |-> "calculate_series_metrics", price_series |-> q] :
        q \in SeqsUpTo(SeriesPrices, MaxObs)}

Tiny == Rat(1, 100)
\* rounding can leave a residue where the exact result is zero
AllEqual(q) == \A i, j \in 1..Len(q) : RatEq(q[i], q[j])
AllZero(q) == \A i \in 1..Len(q) : IsZero(q[i])

\* what mean_historical_return answers: the compounded growth of the
\* series, annualised; 0 without returns and for a flat series
MuAnswers(price_series) ==
    LET n == Len(price_series)
        first == price_series[1]
        last == price_series[n]
    IN  IF n < 2 \/ AllZero(Returns(price_series)) THEN {Rat(0, 1)}
        ELSE IF RatEq(first, last) THEN {Rat(0, 1), Tiny, Rat(0 - 1, 100)}
        ELSE IF last.num * first.den > first.num * last.den THEN {Rat(3, 1)}
        ELSE {Rat(0 - 1, 2)}

\* what returns.std() answers (ddof=1): NaN with fewer than two returns,
\* 0 for returns that are all zero, a positive number for returns that
\* differ
StdAnswers(returns) ==
    IF Len(returns) < 2 THEN {NaN}
    ELSE IF AllZero(returns) THEN {Rat(0, 1)}
    ELSE IF AllEqual(returns) THEN {Rat(0, 1), Tiny}
    ELSE {Rat(1, 5)}

\* ---- calculate_end_pf_weights
WeightValues == {Rat(0, 1), Rat(1, 2), Rat(1, 1)}
WeightKeys == {<<>>, <<"AAA">>, <<"AAA", "BBB">>, <<"BBB", "CCC">>, <<"CCC">>}
WeightDicts ==
    UNION {{Weights(t, v) : v \in [1..Len(t) -> WeightValues]} : t \in WeightKeys}

\* price matrices over one or two business days: every price starts at 1
\* and ends at 1 or 2
EndPriceMatrices ==
    {EmptyDataFrame}
    \cup UNION {{DataFrame(c, {0, 1}, [i \in 1..Len(c) |-> (0 :> One) @@ (1 :> l[i])]) :
                    l \in [1..Len(c) -> {One, Rat(2, 1)}]} :
                c \in {<<"AAA">>, <<"AAA", "BBB">>}}
    \cup {DataFrame(<<"AAA", "BBB">>, {0}, <<(0 :> One), (0 :> One)>>)}

EndWeightsCalls ==
    {[op |-> "calculate_end_pf_weights", prices_df |-> df, weights |-> w] :
        df \in EndPriceMatrices, w \in WeightDicts}

\* ---- get_sp500_constituents
WorkbookStates == {"absent", "snapshot"}
ConstituentsCalls ==
    {[op |-> "get_sp500_constituents", fetch_live |-> f, use_cache_if_exists |-> u,
      file |-> x] : f \in BOOLEAN, u \in BOOLEAN, x \in WorkbookStates}
\* the answers of the outside world
Envs ==
    [wiki_fails : 0..max_retries, wiki_parse : {"ok", "no tables", "raises"},
     github_fails : 0..max_retries, github_parse : BOOLEAN,
     write_ok : BOOLEAN, excel_read : BOOLEAN]

\* ---- backend.get_data
CivilDate(y, m, d) == [year |-> y, month |-> m, day |-> d]
CivilDates ==
    {CivilDate(y, md[1], md[2]) :
        y \in FirstYear..LastYear, md \in {<<1, 1>>, <<2, 28>>, <<3, 1>>, <<12, 31>>}}
    \cup {CivilDate(y, 2, 29) : y \in {x \in FirstYear..LastYear : IsLeapYear(x)}}

BackendCalls ==
    {[op |-> "backend_get_data", tickers |-> <<"AAA", "BBB">>,
      start |-> s, end |-> e] : s \in CivilDates, e \in CivilDates}

\* ---- the Optimize handler of app/app.py
\* str.strip()
StripTable == (" bbb " :> "bbb") @@ (" " :> "")
Strip(t) == IF t \in DOMAIN StripTable THEN StripTable[t] ELSE t

StripUpper(t) == Upper(Strip(t))
Stripped(t) == Strip(t) # ""

\* [t.strip().upper() for t in tickers.split(",") if t.strip()], given the
\* pieces tickers.split(",") yields
ParseTickers(pieces) ==
    LET kept == SelectSeq(pieces, Stripped)
    IN  [i \in 1..Len(kept) |-> StripUpper(kept[i])]

\* BENCHMARKS
BENCHMARKS == ("S&P 500" :> "SPY") @@ ("MSCI ACWI" :> "ACWI")

\* st.session_state.optimized_data = None
NoData == [stored |-> FALSE]

\* what the sidebar holds when Optimize is clicked: the pieces of the
\* ticker text, and the dates (the date widgets keep start <= end)
TickerTexts == {<<"">>, <<" ", "">>, <<"AAA">>, <<"AAA", " bbb ">>}
AppRanges == {<<0, MaxDay>>, <<MaxDay - 6 * 365, MaxDay>>}
AppCurrencies == {"USD", "GBP"}

\* the provider's answers to the handler's price fetches
AppAssetOracles(ticker_list, start, end) ==
    [Range(ticker_list) -> {EmptyFrame, FullFrame(start, end, 100)}]

\* the solver's answers in the handler
AppEfAnswers(data) ==
    LET n == Len(data.columns)
    IN  IF n = 0 \/ Len(data.index) < 2 THEN {Raised("ValueError")}
        ELSE {Raised("ValueError")}
             \cup {Solved(w, [expected |-> w]) :
                     w \in {v \in RawWeights(n) : v[1] \in {50, 250000} \/ n = 1}}

\* the provider's answers to the handler's benchmark fetches
AppBmkOracles(ticker, direct, reverse, start, end) ==
    {(ticker :> b) @@ (direct :> d) @@ (reverse :> EmptyFrame) :
        b \in {EmptyFrame, FullFrame(start, end, 400)},
        d \in {EmptyFrame, FullFrame(start, end, 1)}}

AppCall == [op |-> "app"]

Calls ==
    FxCalls \cup BmkCalls \cup DataCalls \cup OptCalls \cup BackendCalls
    \cup MetricsCalls \cup EndWeightsCalls \cup ConstituentsCalls

Pending == [status |-> "pending"]
\* a finished call: the provider's answers and the call's result
Returned(yf, value) == [status |-> "returned", yf |-> yf, value |-> value]

(***************************************************************************)
(* The state machine                                                       *)
(***************************************************************************)
Init ==
    /\ call \in Calls
    /\ ret = Pending
    /\ cache = <<>>
    /\ optimized_data = NoData
    /\ runs = 0

\* one call of get_fx against some answers of the provider
GetFx ==
    /\ call.op = "get_fx"
    /\ ret = Pending
    /\ \E yf \in FxCallOracles(call) :
            ret' = Returned(yf, get_fx(call.from_ccy, call.to_ccy,
                                       call.start_date, call.end_date, yf))
    /\ UNCHANGED <<call, cache, optimized_data, runs>>

\* one call of get_bmk
GetBmk ==
    /\ call.op = "get_bmk"
    /\ ret = Pending
    /\ \E info \in InfoAnswers :
         LET detected == _get_ticker_currency(info)
             bench_ccy == IF detected = "None"
                          THEN (IF IsFtseTicker(call.ticker) THEN "GBP" ELSE "USD")
                          ELSE detected
         IN  \E yf \in BmkOracles(call, bench_ccy) :
                ret' = [status |-> "returned", yf |-> yf, info |-> info,
                        value |-> get_bmk(call.ticker, call.start_date, call.end_date,
                                          call.reporting_currency, yf, info)]
    /\ UNCHANGED <<call, cache, optimized_data, runs>>

\* one call of get_data
GetData ==
    /\ call.op = "get_data"
    /\ ret = Pending
    /\ \E yf \in [Range(call.tickers) -> AssetFrames(call.start_date, call.end_date)] :
            ret' = Returned(yf, get_data(call.tickers, yf))
    /\ UNCHANGED <<call, cache, optimized_data, runs>>

\* one call of optimize_portfolio
OptimizePortfolio ==
    /\ call.op = "optimize_portfolio"
    /\ ret = Pending
    /\ \E ef \in EfAnswers(call.data) :
            ret' = [status |-> "returned", ef |-> ef,
                    value |-> optimize_portfolio(call.data, ef)]
    /\ UNCHANGED <<call, cache, optimized_data, runs>>

\* one call of backend.get_data
BackendGetData ==
    /\ call.op = "backend_get_data"
    /\ ret = Pending
    /\ ret' = Returned(<<>>, backend_get_data(call.tickers, call.start, call.end,
                                              "closes"))
    /\ UNCHANGED <<call, cache, optimized_data, runs>>

\* one call of calculate_series_metrics
CalculateSeriesMetrics ==
    /\ call.op = "calculate_series_metrics"
    /\ ret = Pending
    /\ \E mu \in MuAnswers(call.price_series), std \in StdAnswers(Returns(call.price_series)) :
            ret' = Returned([mu |-> mu, std |-> std],
                            calculate_series_metrics(call.price_series, mu, std))
    /\ UNCHANGED <<call, cache, optimized_data, runs>>

\* one call of calculate_end_pf_weights
CalculateEndPfWeights ==
    /\ call.op = "calculate_end_pf_weights"
    /\ ret = Pending
    /\ ret' = Returned(<<>>, calculate_end_pf_weights(call.prices_df, call.weights))
    /\ UNCHANGED <<call, cache, optimized_data, runs>>

\* one call of get_sp500_constituents
GetSp500Constituents ==
    /\ call.op = "get_sp500_constituents"
    /\ ret = Pending
    /\ \E env \in Envs :
            ret' = Returned(env, get_sp500_constituents(call.fetch_live,
                                    call.use_cache_if_exists, call.file, env))
    /\ UNCHANGED <<call, cache, optimized_data, runs>>

\* a session state that a failed run clears
SessionState_cleared_on_failure(previous, succeeded, result) ==
    IF succeeded THEN result ELSE NoData

\* st.session_state.optimized_data after a run that got past the ticker
\* check: assigned only where the benchmark is not empty, and otherwise,
\* also after an exception, what it was
SessionState(previous, succeeded, result) ==
    IF succeeded THEN result ELSE previous

\* the outcome of one click: the request, what st.error showed, the
\* symbols fetched from the provider, whether the optimizer ran, and the
\* result written to the session state
Run(request, error, fetches, optimized, result) ==
    [status |-> "returned", request |-> request, error |-> error, fetches |-> fetches,
     optimized |-> optimized, result |-> result]

\* a click on Optimize: the whole handler, from the ticker text to the
\* session state.  The benchmark and the reporting currency are drawn
\* where the handler first reads them.
Optimize ==
    /\ call.op = "app"
    /\ runs < MaxRuns
    /\ runs' = runs + 1
    /\ UNCHANGED call
    /\ \E pieces \in TickerTexts, range \in AppRanges :
        LET ticker_list == ParseTickers(pieces)
            start_date == range[1]
            end_date == range[2]
            request == [ticker_list |-> ticker_list, start_date |-> start_date,
                        end_date |-> end_date]
            key == <<ticker_list, start_date, end_date>>
            hit == key \in DOMAIN cache
            price_fetches == IF hit THEN <<>> ELSE ticker_list
        IN  IF Len(ticker_list) = 0
            THEN /\ ret' = Run(request, "Please enter at least one valid ticker.",
                               <<>>, FALSE, NoData)
                 /\ UNCHANGED <<cache, optimized_data>>
            ELSE \E yf \in (IF hit THEN {<<>>}
                            ELSE AppAssetOracles(ticker_list, start_date, end_date)) :
                 \* df_prices = cached_get_data(ticker_list, start_date, end_date)
                 \E df_prices \in {IF hit THEN cache[key] ELSE get_data(ticker_list, yf)} :
                    /\ cache' = IF hit THEN cache ELSE (key :> df_prices) @@ cache
                    /\ \E ef \in AppEfAnswers(df_prices) :
                       \* weights, port_perf = optimize_portfolio(df_prices)
                       \E opt \in {optimize_portfolio(df_prices, ef)} :
                        IF IsRaised(opt)
                        THEN /\ ret' = Run(request, opt.raised, price_fetches, TRUE, NoData)
                             /\ optimized_data' = SessionState(optimized_data, FALSE, NoData)
                        ELSE
                        \E benchmark_name \in DOMAIN BENCHMARKS,
                           reporting_currency \in AppCurrencies :
                        \E byf \in AppBmkOracles(BENCHMARKS[benchmark_name],
                                                 "USD" \o reporting_currency \o "=X",
                                                 reporting_currency \o "USD" \o "=X",
                                                 start_date, end_date) :
                        \* bmk_df, bmk_meta = get_bmk(benchmark_ticker, ...)
                        \E bmk \in {get_bmk(BENCHMARKS[benchmark_name], start_date, end_date,
                                            reporting_currency, byf, Info(FALSE, "USD"))} :
                            IF ~DfEmpty(bmk.df)
                            THEN LET bmk_series == bmk.df.cols[2]
                                     result ==
                                        [stored |-> TRUE,
                                         weights |-> opt.weights,
                                         port_perf |-> opt.perf,
                                         bmk_perf |-> [of |-> bmk_series],
                                         chart_data |->
                                            [Portfolio |-> <<df_prices.cols, opt.weights>>,
                                             Benchmark |-> bmk_series],
                                         benchmark_name |-> benchmark_name,
                                         prices |-> df_prices,
                                         ticker_list |-> ticker_list]
                                 IN  /\ optimized_data' = SessionState(optimized_data, TRUE, result)
                                     /\ ret' = Run(request, "None",
                                                   price_fetches \o bmk.fetches, TRUE, result)
                            ELSE /\ ret' = Run(request, "Could not retrieve benchmark data.",
                                               price_fetches \o bmk.fetches, TRUE, NoData)
                                 /\ optimized_data' = SessionState(optimized_data, FALSE, NoData)

Next ==
    \/ GetFx
    \/ GetBmk
    \/ GetData
    \/ OptimizePortfolio
    \/ BackendGetData
    \/ CalculateSeriesMetrics
    \/ CalculateEndPfWeights
    \/ GetSp500Constituents

\* calls of the backend functions, each from its arguments
Spec == Init /\ [][Next]_vars

\* a browser session: the session state after the script's first run, then
\* clicks on Optimize
InitApp ==
    /\ call = AppCall
    /\ ret = Pending
    /\ cache = <<>>
    /\ optimized_data = NoData
    /\ runs = 0

NextApp == Optimize

SpecApp == InitApp /\ [][NextApp]_vars

(***************************************************************************)
(* The claims                                                              *)
(***************************************************************************)
Done == ret.status = "returned"

\* a span of five calendar years has 1826 or 1827 days
FiveYearsShort == 365 * 5 + 1
FiveYearsLong == 365 * 5 + 2

\* ---- C1
C1_Span == ToOrdinal(call.end) - ToOrdinal(call.start)

\* C1: a price-data request whose range is five years long (1826 days) is
\* accepted and one a day longer is rejected; no range of 1826 days or
\* less is rejected as too large.
C1_FiveYearRangeAccepted ==
    (call.op = "backend_get_data" /\ Done) =>
        /\ (C1_Span <= FiveYearsShort => ret.value.raised = "None")
        /\ (C1_Span = FiveYearsShort + 1 => ret.value.raised = "ValueError")

\* ---- C2
\* the requests the spec calls invalid: no ticker, more than five years,
\* or a start after the end
C2_InvalidShape(request) ==
    \/ Len(request.ticker_list) = 0
    \/ request.end_date - request.start_date > FiveYearsLong
    \/ request.start_date > request.end_date

\* C2: a click whose request is invalid (no ticker, a range longer than
\* five years, start after end) shows a validation error, and neither a
\* fetch from the provider nor the optimizer has run in it.
C2_InvalidRequestDoesNoWork ==
    (call.op = "app" /\ Done /\ C2_InvalidShape(ret.request)) =>
        /\ ret.error = "Please enter at least one valid ticker."
        /\ ret.fetches = <<>>
        /\ ~ret.optimized

\* ---- C3
\* the price matrix the last click worked on
C3_Prices == cache[<<ret.request.ticker_list, ret.request.start_date, ret.request.end_date>>]

\* C3: when fewer than two assets survive the conditioning, the click ends
\* in an error that is not the validation error, and no weight vector is
\* stored as a portfolio.
C3_FewerThanTwoAssetsIsAnError ==
    (call.op = "app" /\ Done /\ Len(ret.request.ticker_list) > 0
        /\ Len(C3_Prices.columns) < 2) =>
        /\ ret.error \notin {"None", "Please enter at least one valid ticker."}
        /\ ~ret.result.stored
        /\ ~(optimized_data.stored /\ Len(optimized_data.weights.tickers) < 2)

\* ---- C4
C4_Returned == call.op = "optimize_portfolio" /\ Done /\ ~IsRaised(ret.value)
C4_Weights == ret.value.weights.values
C4_Raw == ret.ef.weights

C5_Currency(code) ==
    IF code \in {"USD", "usd", "Usd"} THEN "USD"
    ELSE IF code \in {"GBP", "gbp", "Gbp"} THEN "GBP"
    ELSE IF code \in {"EUR", "eur", "Eur"} THEN "EUR"
    ELSE code
C5_Direct == C5_Currency(call.from_ccy) \o C5_Currency(call.to_ccy) \o "=X"
C5_Reverse == C5_Currency(call.to_ccy) \o C5_Currency(call.from_ccy) \o "=X"
C5_TwoCurrencies ==
    call.op = "get_fx" /\ Done /\ C5_Currency(call.from_ccy) # C5_Currency(call.to_ccy)
C5_Available(symbol) == DOMAIN ret.yf[symbol].data # {}
\* value is the inverse of rate, and undefined for a zero rate
C5_Inverse(value, rate) ==
    IF IsZero(rate) THEN IsNaN(value) ELSE RatEq(Mul(value, rate), One)

C6_Bench == ret.value.df.cols[1]
C6_Converted == ret.value.df.cols[2]
\* a GBP benchmark with data, reported in USD, GBPUSD unavailable and
\* USDGBP available
C6_Scenario ==
    /\ call.op = "get_bmk" /\ Done
    /\ ~DfEmpty(ret.value.df)
    /\ ret.value.meta.bench_ccy = "GBP"
    /\ C5_Currency(call.reporting_currency) = "USD"
    /\ DOMAIN ret.yf["GBPUSD=X"].data = {}
    /\ DOMAIN ret.yf["USDGBP=X"].data # {}
\* the USDGBP series as downloaded
C6_Rates == _download_series("USDGBP=X", ret.yf["USDGBP=X"]).data
\* the benchmark dates that have a USDGBP rate other than zero
C6_Usable == {e \in DOMAIN C6_Bench \cap DOMAIN C6_Rates : ~IsZero(C6_Rates[e])}
\* the date whose rate converts date d: the latest usable date up to d,
\* or else the earliest usable date
C6_RateDate(d) ==
    IF \E e \in C6_Usable : e <= d THEN SetMax({e \in C6_Usable : e <= d})
    ELSE SetMin(C6_Usable)

C7_Direct == ret.value.meta.bench_ccy \o C5_Currency(call.reporting_currency) \o "=X"
C7_Reverse == C5_Currency(call.reporting_currency) \o ret.value.meta.bench_ccy \o "=X"
\* a benchmark with data, a reporting currency other than its own, and no
\* FX pair available
C7_NoPairResolves ==
    /\ call.op = "get_bmk" /\ Done
    /\ ~DfEmpty(ret.value.df)
    /\ call.reporting_currency \notin {"None", ""}
    /\ C5_Currency(call.reporting_currency) # ret.value.meta.bench_ccy
    /\ DOMAIN ret.yf[C7_Direct].data = {}
    /\ DOMAIN ret.yf[C7_Reverse].data = {}

C8_SameCurrency ==
    call.op = "get_fx" /\ Done /\ C5_Currency(call.from_ccy) = C5_Currency(call.to_ccy)

\* C8: get_fx for one currency, whatever the case of the two codes,
\* returns a series defined exactly on the business days of the requested
\* range, inclusive of both ends, with the value 1.0 on each of them,
\* together with the pair identifier none, and it fetches nothing from the
\* provider.
C8_IdentityIsOne ==
    C8_SameCurrency =>
        /\ DOMAIN ret.value.series.data =
                {d \in call.start_date..call.end_date : IsBusinessDay(d)}
        /\ \A d \in DOMAIN ret.value.series.data : ret.value.series.data[d] = One
        /\ ret.value.pair = "None"
        /\ ret.value.fetches = <<>>

\* the two codes differ in case and the range holds a weekend
C8_MixedCaseOverWeekend ==
    /\ C8_SameCurrency
    /\ call.from_ccy # call.to_ccy
    /\ \E d \in call.start_date..call.end_date : ~IsBusinessDay(d)
    /\ \E d, e \in DOMAIN ret.value.series.data : d < e

\* ---- C9
\* C9: every series get_fx returns is empty or has only strictly positive
\* values, whatever rates the provider answers with.
C9_FxSeriesPositive ==
    (call.op = "get_fx" /\ Done) =>
        \/ IsEmpty(ret.value.series)
        \/ \A d \in DOMAIN ret.value.series.data : IsPositive(ret.value.series.data[d])

\* ---- C10
\* the provider's frame for ticker t has a price column with a value
C10_HasData(t) ==
    /\ ret.yf[t].col \in {"Adj Close", "Close"}
    /\ \E d \in DOMAIN ret.yf[t].data : ~IsNaN(ret.yf[t].data[d])

C11_Returned == call.op = "get_data" /\ Done /\ ~DfEmpty(ret.value)
\* the dates on which the provider has a price for a requested ticker
C11_Priced ==
    {d \in Days : \E t \in Range(call.tickers) :
        /\ C10_HasData(t)
        /\ d \in DOMAIN ret.yf[t].data
        /\ ~IsNaN(ret.yf[t].data[d])}
C11_Rows == Range(ret.value.index)
C11_Ordered ==
    \A i \in 1..(Len(ret.value.index) - 1) : ret.value.index[i] < ret.value.index[i + 1]
C11_NoMissingValue ==
    \A i \in 1..Len(ret.value.cols) :
        /\ DOMAIN ret.value.cols[i] = C11_Rows
        /\ \A d \in C11_Rows : ~IsNaN(ret.value.cols[i][d])

C12_Returned == call.op = "calculate_series_metrics" /\ Done
C12_Flat == \A i, j \in 1..Len(call.price_series) : call.price_series[i] = call.price_series[j]
\* the Sharpe ratio is mu / sigma for a sigma other than zero, and exactly
\* 0 for a sigma of zero
C12_RatioOrZero ==
    /\ IsZero(ret.value.sigma) => ret.value.sharpe = Rat(0, 1)
    /\ (IsFinite(ret.value.sigma) /\ ~IsZero(ret.value.sigma)) =>
            RatEq(Mul(ret.value.sharpe, ret.value.sigma), ret.value.mu)
    /\ IsNaN(ret.value.sigma) => IsNaN(ret.value.sharpe)

\* C12 as stated: calculate_series_metrics returns a Sharpe ratio equal to
\* return / volatility when the volatility is not zero and exactly 0 when
\* it is zero, which is the case of a flat series of two observations or
\* more.
C12_FlatSeriesHasZeroSharpe ==
    C12_Returned =>
        /\ C12_RatioOrZero
        /\ (C12_Flat /\ Len(call.price_series) >= 2) =>
                IsZero(ret.value.sigma) /\ ret.value.sharpe = Rat(0, 1)

\* C12: calculate_series_metrics returns a Sharpe ratio equal to
\* return / volatility when the volatility is not zero and exactly 0 when
\* it is zero, which is the case of a flat series of three observations or
\* more; with fewer than three observations, flat or not, the volatility
\* and the Sharpe ratio are both NaN, and the return of a series with
\* fewer than two observations is 0.
C12_SharpeByVolatility ==
    C12_Returned =>
        /\ C12_RatioOrZero
        /\ (C12_Flat /\ Len(call.price_series) >= 3) =>
                IsZero(ret.value.sigma) /\ ret.value.sharpe = Rat(0, 1)
        /\ Len(call.price_series) < 3 =>
                IsNaN(ret.value.sigma) /\ IsNaN(ret.value.sharpe)
        /\ Len(call.price_series) < 2 => IsZero(ret.value.mu)

\* a flat series of three observations: volatility zero, Sharpe ratio 0
C12_FlatSeriesOfThree ==
    /\ C12_Returned
    /\ C12_Flat
    /\ Len(call.price_series) >= 3
    /\ IsZero(ret.value.sigma)
    /\ ret.value.sharpe = Rat(0, 1)

\* ---- C13
C13_Returned == call.op = "calculate_end_pf_weights" /\ Done
\* the tickers of the weights that are columns of the price matrix
C13_Kept(t) == t \in Range(call.prices_df.columns)
C13_Tickers == SelectSeq(call.weights.tickers, C13_Kept)
\* the start weight of the i-th kept ticker, its growth over the window
\* and the value it ends with
C13_Start(i) == WeightOf(call.weights, C13_Tickers[i])
C13_Growth(i) ==
    LET column == ColumnOf(call.prices_df, C13_Tickers[i])
        index == call.prices_df.index
    IN  Mul(column[index[Len(index)]], Reciprocal(column[index[1]]))
C13_Ending(i) == Mul(C13_Start(i), C13_Growth(i))
C13_Total == RatSum([i \in 1..Len(C13_Tickers) |-> C13_Ending(i)])
\* the start weights are those of the kept tickers; without a kept ticker
\* both series are empty
C13_Restricted ==
    /\ ret.value.w_start.tickers = C13_Tickers
    /\ \A i \in 1..Len(C13_Tickers) : ret.value.w_start.values[i] = C13_Start(i)
    /\ Len(C13_Tickers) = 0 =>
            ret.value.w_start = EmptyWeights /\ ret.value.w_end = EmptyWeights
    /\ ret.value.w_end.tickers = C13_Tickers
C13_Proportional ==
    \A i \in 1..Len(C13_Tickers) :
        RatEq(Mul(ret.value.w_end.values[i], C13_Total), C13_Ending(i))

\* C13 as stated: the start weights are restricted to the tickers in the
\* price matrix, each end weight is w_i * (last price_i / first price_i)
\* divided by the sum of that product over the kept tickers, and the end
\* weights sum to 1; without overlap both series are empty.
C13_EndWeightsSumToOne ==
    C13_Returned =>
        /\ C13_Restricted
        /\ Len(C13_Tickers) > 0 =>
            /\ C13_Proportional
            /\ RatEq(RatSum(ret.value.w_end.values), One)

\* C13: the start weights are restricted to the tickers in the price
\* matrix and without overlap both series are empty; when the products
\* w_i * (last price_i / first price_i) of the kept tickers have a sum
\* other than zero, each end weight is its product divided by that sum
\* and the end weights sum to 1; when the sum is zero (every kept start
\* weight is 0) every end weight is NaN.
C13_EndWeightsSumToOneOrNaN ==
    C13_Returned =>
        /\ C13_Restricted
        /\ (Len(C13_Tickers) > 0 /\ ~IsZero(C13_Total)) =>
            /\ C13_Proportional
            /\ RatEq(RatSum(ret.value.w_end.values), One)
        /\ (Len(C13_Tickers) > 0 /\ IsZero(C13_Total)) =>
            \A i \in 1..Len(C13_Tickers) : IsNaN(ret.value.w_end.values[i])

\* start {AAA: 0.5, BBB: 0.5}, AAA doubling and BBB flat: the end weights
\* are {AAA: 2/3, BBB: 1/3}
C13_DoublingAndFlat ==
    /\ C13_Returned
    /\ call.weights = Weights(<<"AAA", "BBB">>, <<Rat(1, 2), Rat(1, 2)>>)
    /\ ret.value.w_end.tickers = <<"AAA", "BBB">>
    /\ RatEq(C13_Growth(1), Rat(2, 1)) /\ RatEq(C13_Growth(2), One)
    /\ RatEq(ret.value.w_end.values[1], Rat(2, 3))
    /\ RatEq(ret.value.w_end.values[2], Rat(1, 3))

\* ---- C14
C14_Returned == call.op = "get_sp500_constituents" /\ Done
C14_Log == ret.value.log
C14_Tried(access) == \E i \in 1..Len(C14_Log) : C14_Log[i] = access
\* what each source would answer in this environment
C14_WikipediaGood == ret.yf.wiki_fails < max_retries /\ ret.yf.wiki_parse = "ok"
C14_GithubGood == ret.yf.github_fails < max_retries /\ ret.yf.github_parse
C14_ExcelGood == ret.yf.excel_read
\* the sources the call is allowed to try
C14_WikipediaAllowed == call.fetch_live
C14_ExcelAllowed == call.use_cache_if_exists /\ call.file # "absent"
\* the first allowed source that answers, or "None"
C14_FirstGood ==
    IF C14_WikipediaAllowed /\ C14_WikipediaGood THEN "wikipedia"
    ELSE IF C14_GithubGood THEN "github"
    ELSE IF C14_ExcelAllowed /\ C14_ExcelGood THEN "excel"
    ELSE "None"

\* C14: get_sp500_constituents tries Wikipedia (only when fetch_live),
\* then the GitHub mirror, then the local workbook (only when
\* use_cache_if_exists and the file exists), in that order, and stops at
\* the first that succeeds; it raises FileNotFoundError exactly when every
\* source it was allowed to try failed; a failed write of the local cache
\* changes neither the result nor the workbook.
C14_SourcesInOrder ==
    C14_Returned =>
        /\ \A i, j \in 1..Len(C14_Log) :
            (i < j) => /\ C14_Log[j] = "GET wikipedia" => C14_Log[i] = "GET wikipedia"
                       /\ C14_Log[i] \notin {"read", "write"}
        /\ C14_Tried("GET wikipedia") <=> C14_WikipediaAllowed
        /\ C14_Tried("GET github") <=> ~(C14_WikipediaAllowed /\ C14_WikipediaGood)
        /\ C14_Tried("read") <=>
                /\ ~(C14_WikipediaAllowed /\ C14_WikipediaGood)
                /\ ~C14_GithubGood
                /\ C14_ExcelAllowed
        /\ C14_Tried("write") <=> ret.value.source \in {"wikipedia", "github"}
        /\ ret.value.source = C14_FirstGood
        /\ ret.value.raised = "FileNotFoundError" <=> C14_FirstGood = "None"
        /\ ret.value.raised \in {"None", "FileNotFoundError"}
        /\ ret.value.file = IF C14_Tried("write") /\ ret.yf.write_ok
                            THEN ret.value.source ELSE call.file

\* Wikipedia was not to be tried, the mirror answered after a failed GET,
\* and the cache could not be written: the mirror's table is returned
C14_MirrorWithoutCache ==
    /\ C14_Returned
    /\ ~call.fetch_live
    /\ ret.yf.github_fails > 0
    /\ ~ret.yf.write_ok
    /\ ret.value.source = "github"
    /\ ret.value.raised = "None"
    /\ ret.value.file = call.file

\* ---- C15
\* the handler ran to the assignment of the session state: no error shown
C15_Succeeded(outcome) == outcome.status = "returned" /\ outcome.error = "None"
\* the fields of a stored result all come from the run with this outcome
C15_FromRun(stored, outcome) ==
    /\ stored = outcome.result
    /\ stored.stored
    /\ stored.ticker_list = outcome.request.ticker_list
    /\ stored.prices = cache'[<<outcome.request.ticker_list, outcome.request.start_date,
                                outcome.request.end_date>>]
    /\ stored.weights.tickers = stored.prices.columns
    /\ stored.chart_data.Portfolio = <<stored.prices.cols, stored.weights>>
    /\ stored.chart_data.Benchmark = stored.bmk_perf.of
    /\ stored.port_perf.expected \in {w \in RawWeights(Len(stored.prices.columns)) :
                                        clean_weights(w) = stored.weights.values}

\* C15: a click on Optimize replaces st.session_state.optimized_data only
\* when its price fetch, optimization and benchmark retrieval all
\* succeeded, and then every field of the stored result comes from that
\* click; a click that fails at any step, or whose benchmark is empty,
\* leaves the stored result as it was.
C15_ReplacedOnlyBySuccess ==
    [][/\ C15_Succeeded(ret') =>
            /\ ret'.optimized
            /\ Len(ret'.fetches) > 0
            /\ C15_FromRun(optimized_data', ret')
       /\ ~C15_Succeeded(ret') =>
            /\ optimized_data' = optimized_data
            /\ ret'.result = NoData]_vars

\* a stored result outlived a later click that failed: the result is of
\* other tickers than the last request
C15_EarlierResultKept ==
    /\ call.op = "app" /\ Done
    /\ runs >= 2
    /\ ret.error \notin {"None", "Please enter at least one valid ticker."}
    /\ optimized_data.stored
    /\ optimized_data.ticker_list # ret.request.ticker_list

=============================================================================
